---- MODULE Spec2Model ----
(***************************************************************************)
(* A model of pyprob/distributions.py: the Distribution base class and its *)
(* variants Empirical, Categorical, Normal, TruncatedNormal and Uniform.   *)
(*                                                                         *)
(* Numbers.  Tensor arithmetic is finite-precision floating point.  The    *)
(* model keeps what matters of it in fixed point:                          *)
(*   - a point of the real line is an integer count of quarter standard    *)
(*     deviations (x = 4 stands for 1.0 sigma of the standard normal);     *)
(*   - a probability is an integer count of hundredths, so the normal CDF  *)
(*     rounds to two digits and saturates to exactly 0 or 1 in the tails,  *)
(*     as the float CDF does further out;                                  *)
(*   - a float is a record [k, v]: k is "fin", "pinf", "ninf" or "nan".    *)
(*   - a weight or a moment of an Empirical is an exact rational: the     *)
(*     rounding of exp, of sums and of products is left out there.         *)
(*                                                                         *)
(* Each class has a specification of its own over its part of the state:   *)
(* SpecTN (TruncatedNormal.sample), SpecUni (Uniform), SpecEmp             *)
(* (Empirical.__init__), SpecEmpStats (the cached statistics of an         *)
(* Empirical) and SpecDist (which code an operation runs, by class).       *)
(***************************************************************************)
EXTENDS Integers, Sequences, FiniteSets, TLC

(* ------------------------------------------------------------------ *)
(* Bounds of the model                                                 *)
(* ------------------------------------------------------------------ *)
\* low and high of a TruncatedNormal range over -MaxX..MaxX quarter-sigmas
MaxX == 11
\* a uniform draw is one of 0/RandSteps, 1/RandSteps, ..., RandSteps/RandSteps
RandSteps == 2
\* attempts of one sample() call followed beyond the warning threshold
ExtraAttempts == 2
\* low, high of a Uniform range over -MaxU..MaxU; log_prob arguments one further
MaxU == 3
\* an Empirical is built from 1..MaxLen values
MaxLen == 3
\* the accessors are followed on Empiricals built from 1..MaxStatLen values
MaxStatLen == 2
\* the contents of a value: 1..MaxVal
MaxVal == 2
\* a log-weight is log(1), ..., log(MaxW)
MaxW == 2

\* the attempt at which TruncatedNormal.sample prints its warning
WarnThreshold == 10000

VARIABLES
    tn,             \* TruncatedNormal: the fields set by __init__
    tn_pc,          \* position in TruncatedNormal.sample: "idle", "loop", "done"
    rand,           \* sample(): the local rand, a count of 1/RandSteps
    attempt_count,  \* sample(): the local attempt_count
    ret,            \* sample(): the local ret, a float record
    warnings,       \* warnings printed by the current sample() call
    draws,          \* uniform_() draws made by the current sample() call
    uni,            \* Uniform: the fields _low and _high
    uni_sampled,    \* Uniform: the last sample() result, in 1/RandSteps, or None
    uni_value,      \* Uniform: the argument of the last log_prob call, or None
    uni_log_prob,   \* Uniform: the result of the last log_prob call, or None
    e_pc,           \* Empirical: "new", "constructed", or "TypeError" (__init__ raised)
    e_in,           \* Empirical: the arguments __init__ was called with
    e_dist,         \* Empirical.__init__: the local distribution, before sorting
    emp,            \* Empirical: the fields of the object
    e_count,        \* Empirical: how often each statistic has been computed
    e_ret,          \* Empirical: the last access, or None: <<property, value
                    \* returned, statistics computed during the access>>
    d_obj,          \* any distribution: its class, delegate and filled caches
    d_before,       \* d_obj as it was before the last call
    d_op,           \* the operation last called on d_obj, or None
    d_out           \* how that call ended: "value" or the exception raised

tn_vars == <<tn, tn_pc, rand, attempt_count, ret, warnings, draws>>
uni_vars == <<uni, uni_sampled, uni_value, uni_log_prob>>
emp_vars == <<e_pc, e_in, e_dist, emp, e_count, e_ret>>
dist_vars == <<d_obj, d_before, d_op, d_out>>
vars == <<tn_vars, uni_vars, emp_vars, dist_vars>>

(* ------------------------------------------------------------------ *)
(* Floats                                                              *)
(* ------------------------------------------------------------------ *)
Fin(v) == [k |-> "fin", v |-> v]
PInf == [k |-> "pinf", v |-> 0]
NInf == [k |-> "ninf", v |-> 0]
NaN == [k |-> "nan", v |-> 0]

\* Python's None is the empty sequence, and a value x that may be None is <<x>>
None == <<>>

\* n / d rounded to the nearest integer (d > 0), halves away from zero
RoundDiv(n, d) ==
    IF n >= 0 THEN (2 * n + d) \div (2 * d) ELSE -((2 * (-n) + d) \div (2 * d))

\* util.has_nan_or_inf
has_nan_or_inf(x) == x.k # "fin"

(* ------------------------------------------------------------------ *)
(* Normal                                                              *)
(* ------------------------------------------------------------------ *)
\* 100 * Phi(x / 4) to the nearest hundredth, for x = 0..11 quarter-sigmas
PhiPos == <<50, 60, 69, 77, 84, 89, 93, 96, 98, 99, 99, 100>>

\* 4 * Phi^-1(p / 100) to the nearest quarter-sigma, for p = 50..99
ProbitPos ==
    <<0, 0, 0, 0, 0, 1, 1, 1, 1, 1, 1, 1, 1, 1, 1, 2, 2, 2, 2, 2, 2, 2, 2, 2, 3,
      3, 3, 3, 3, 3, 3, 4, 4, 4, 4, 4, 4, 5, 5, 5, 5, 5, 6, 6, 6, 7, 7, 8, 8, 9>>

\* 0.5 * (1 + erf(z / sqrt(2))) of a standardised z, in hundredths
StdCdf(z) ==
    IF z >= Len(PhiPos) - 1 THEN 100
    ELSE IF z <= -(Len(PhiPos) - 1) THEN 0
    ELSE IF z >= 0 THEN PhiPos[z + 1]
    ELSE 100 - PhiPos[(-z) + 1]

\* erfinv(2p - 1) * sqrt(2) of a probability p in hundredths: erfinv is
\* +-inf at +-1 and NaN outside [-1, 1]
StdIcdf(p) ==
    IF p < 0 \/ p > 100 THEN NaN
    ELSE IF p = 0 THEN NInf
    ELSE IF p = 100 THEN PInf
    ELSE IF p >= 50 THEN Fin(ProbitPos[p - 49])
    ELSE Fin(-ProbitPos[(100 - p) - 49])

\* Normal.cdf
Normal_cdf(mean, stddev, value) == StdCdf(RoundDiv(value - mean, stddev))

\* Normal.icdf
Normal_icdf(mean, stddev, p) ==
    LET e == StdIcdf(p)
    IN  IF e.k = "fin" THEN Fin(mean + stddev * e.v) ELSE e

(* ------------------------------------------------------------------ *)
(* TruncatedNormal                                                     *)
(* ------------------------------------------------------------------ *)
\* TruncatedNormal.__init__
TruncatedNormal_init(mean_non_truncated, stddev_non_truncated, low, high) ==
    LET alpha == RoundDiv(low - mean_non_truncated, stddev_non_truncated)
        beta == RoundDiv(high - mean_non_truncated, stddev_non_truncated)
    IN  [mean_non_truncated |-> mean_non_truncated,
         stddev_non_truncated |-> stddev_non_truncated,
         low |-> low,
         high |-> high,
         alpha |-> alpha,
         beta |-> beta,
         standard_normal_cdf_alpha |-> Normal_cdf(0, 1, alpha),
         standard_normal_cdf_beta |-> Normal_cdf(0, 1, beta)]

\* the parameterisations the model constructs: stddev > 0 and low <= high,
\* with low and high a whole number a, b of standard deviations' quarters
\* away from the mean, so that alpha and beta are computed exactly
TNParams ==
    {TruncatedNormal_init(m, s, m + s * a, m + s * b) :
        m \in {0, 2}, s \in {1, 2}, a \in -MaxX..MaxX, b \in -MaxX..MaxX}

\* no TruncatedNormal under study
TNAbsent ==
    /\ tn = "none"
    /\ tn_pc = "idle"
    /\ rand = 0
    /\ attempt_count = 0
    /\ ret = NaN
    /\ warnings = 0
    /\ draws = 0

\* no Uniform under study
UniAbsent ==
    /\ uni = "none"
    /\ uni_sampled = None
    /\ uni_value = None
    /\ uni_log_prob = None

\* no distribution under study by class alone
DistAbsent ==
    /\ d_obj = None
    /\ d_before = None
    /\ d_op = None
    /\ d_out = None

\* no Empirical under study
EmpAbsent ==
    /\ e_pc = "new"
    /\ e_in = None
    /\ e_dist = None
    /\ emp = None
    /\ e_count = None
    /\ e_ret = None

TNInit ==
    /\ DistAbsent
    /\ UniAbsent
    /\ EmpAbsent
    /\ tn \in {t \in TNParams : t.low <= t.high}
    /\ tn_pc = "idle"
    /\ rand = 0
    /\ attempt_count = 0
    /\ ret = NaN
    /\ warnings = 0
    /\ draws = 0

\* the right-hand side of line 274
TNTransform(t, r) ==
    LET p == t.standard_normal_cdf_alpha
             + RoundDiv(r * (t.standard_normal_cdf_beta
                             - t.standard_normal_cdf_alpha), RandSteps)
        x == Normal_icdf(0, 1, p)
    IN  IF x.k = "fin"
        THEN Fin(x.v * t.stddev_non_truncated + t.mean_non_truncated)
        ELSE x

\* a warning on every attempt from the threshold on
TNWarnsFromThreshold(count) == count >= WarnThreshold

\* the condition of line 272
TNWarns(count) == count = WarnThreshold

\* sample(), lines 265-269: one draw, then the loop's initial state.  The
\* draw is any point of [0, 1], both ends included
TNSampleBegin ==
    /\ tn_pc \in {"idle", "done"}
    /\ \E r \in 0..RandSteps : rand' = r
    /\ draws' = 1
    /\ attempt_count' = 0
    /\ ret' = NaN
    /\ warnings' = 0
    /\ tn_pc' = "loop"
    /\ UNCHANGED <<tn, uni_vars, emp_vars, dist_vars>>

\* sample(), lines 270-274: one iteration of the while loop.  The body reads
\* rand and never assigns it: uniform_() is called on line 266 only
TNSampleAttempt ==
    /\ tn_pc = "loop"
    /\ has_nan_or_inf(ret)
    /\ attempt_count < WarnThreshold + ExtraAttempts
    /\ attempt_count' = attempt_count + 1
    /\ warnings' = IF TNWarns(attempt_count') THEN warnings + 1 ELSE warnings
    /\ ret' = TNTransform(tn, rand)
    /\ UNCHANGED <<tn, tn_pc, rand, draws, uni_vars, emp_vars, dist_vars>>

\* sample(), lines 270 and 275: the loop ends and ret is returned.  A call
\* whose ret stays non-finite never gets here
TNSampleReturn ==
    /\ tn_pc = "loop"
    /\ ~has_nan_or_inf(ret)
    /\ tn_pc' = "done"
    /\ UNCHANGED <<tn, rand, attempt_count, ret, warnings, draws>>
    /\ UNCHANGED <<uni_vars, emp_vars, dist_vars>>

TNNext == TNSampleBegin \/ TNSampleAttempt \/ TNSampleReturn

SpecTN == TNInit /\ [][TNNext]_vars

\* C1: every attempt of the retry loop is computed from a newly drawn r, so a
\* call that has made n attempts has made n uniform draws
C1_FreshDrawPerAttempt ==
    (tn_pc = "loop" /\ attempt_count >= 1) => draws = attempt_count

\* C2: one sample() call prints the warning at most once, and has printed it
\* exactly when it has reached its 10,000th attempt
C2_WarnOnceAtThreshold ==
    /\ warnings <= 1
    /\ warnings = 1 <=> attempt_count >= WarnThreshold

\* C2 witnesses: a call retrying past the threshold with one warning printed
C2_Witness ==
    /\ tn_pc = "loop"
    /\ attempt_count > WarnThreshold
    /\ warnings = 1

\* C3: every value sample() returns is finite and lies within [low, high]
C3_ReturnedInRange ==
    tn_pc = "done" => (ret.k = "fin" /\ tn.low <= ret.v /\ ret.v <= tn.high)

\* what does hold of a returned value: it is finite
TN_ReturnedFinite == tn_pc = "done" => ret.k = "fin"

(* ------------------------------------------------------------------ *)
(* Uniform                                                             *)
(* ------------------------------------------------------------------ *)
\* A log-density is a float whose finite values are logarithms of ratios:
\* LogFin(p, q) is log(p / q)
LogFin(p, q) == [k |-> "fin", v |-> <<p, q>>]
LogPInf == [k |-> "pinf", v |-> <<0, 1>>]
LogNInf == [k |-> "ninf", v |-> <<0, 1>>]
LogNaN == [k |-> "nan", v |-> <<0, 1>>]

\* torch.log of an integer: NaN below zero, -inf at zero, else finite
Log(x) ==
    IF x < 0 THEN LogNaN
    ELSE IF x = 0 THEN LogNInf
    ELSE LogFin(x, 1)

\* a - b of two log-densities: log(p/q) - log(r/s) = log(ps/qr), and the
\* IEEE rules for infinities (inf - inf is NaN)
LogSub(a, b) ==
    IF a.k = "nan" \/ b.k = "nan" THEN LogNaN
    ELSE IF a.k = "fin" /\ b.k = "fin"
        THEN LogFin(a.v[1] * b.v[2], a.v[2] * b.v[1])
    ELSE IF a.k = "fin" THEN (IF b.k = "ninf" THEN LogPInf ELSE LogNInf)
    ELSE IF b.k = "fin" THEN a
    ELSE IF a.k = b.k THEN LogNaN
    ELSE a

\* value.le(high) in place of value.lt(high)
Uniform_ub_closed(value, high) == IF value <= high THEN 1 ELSE 0

\* Uniform.log_prob, line 298: value.lt(self._high) as a 0/1 indicator
Uniform_ub(value, high) == IF value < high THEN 1 ELSE 0

\* Uniform.log_prob, line 297: value.ge(self._low) as a 0/1 indicator
Uniform_lb(value, low) == IF value >= low THEN 1 ELSE 0

\* Uniform.log_prob
Uniform_log_prob(u, value) ==
    LogSub(Log(Uniform_lb(value, u.low) * Uniform_ub(value, u.high)),
           Log(u.high - u.low))

\* Uniform.sample with the draw r / RandSteps; the result in 1/RandSteps
Uniform_sample(u, r) == u.low * RandSteps + r * (u.high - u.low)

UniInit ==
    /\ DistAbsent
    /\ TNAbsent
    /\ EmpAbsent
    /\ uni \in [low : -MaxU..MaxU, high : -MaxU..MaxU]
    /\ uni_sampled = None
    /\ uni_value = None
    /\ uni_log_prob = None

UniformSample ==
    /\ \E r \in 0..RandSteps : uni_sampled' = <<Uniform_sample(uni, r)>>
    /\ UNCHANGED <<uni, uni_value, uni_log_prob, tn_vars, emp_vars, dist_vars>>

UniformLogProb ==
    /\ \E value \in -(MaxU + 1)..(MaxU + 1) :
        /\ uni_value' = <<value>>
        /\ uni_log_prob' = <<Uniform_log_prob(uni, value)>>
    /\ UNCHANGED <<uni, uni_sampled, tn_vars, emp_vars, dist_vars>>

UniNext == UniformSample \/ UniformLogProb

SpecUni == UniInit /\ [][UniNext]_vars

\* the claim of C7 about one Uniform: the density is half-open, the sampling
\* range closed
UniHalfOpen ==
    /\ uni_value # None =>
        /\ (uni.low <= uni_value[1] /\ uni_value[1] < uni.high)
              => uni_log_prob = <<LogFin(1, uni.high - uni.low)>>
        /\ (uni_value[1] < uni.low \/ uni_value[1] >= uni.high)
              => uni_log_prob = <<LogNInf>>
    /\ uni_sampled # None =>
        /\ uni.low * RandSteps <= uni_sampled[1]
        /\ uni_sampled[1] <= uni.high * RandSteps

\* C7 as stated, for every Uniform(low, high): log_prob(v) is log(1/(high-low))
\* when low <= v < high and minus infinity otherwise; sample() lies in
\* [low, high]
C7_Original == UniHalfOpen

\* C7 amended: the same, for every Uniform(low, high) with low < high
C7_HalfOpenDensity == uni.low < uni.high => UniHalfOpen

\* C7 witness: with low < high, log_prob(high) was minus infinity and sample()
\* returned high itself
C7_Witness ==
    /\ uni.low < uni.high
    /\ uni_value = <<uni.high>>
    /\ uni_log_prob = <<LogNInf>>
    /\ uni_sampled = <<uni.high * RandSteps>>

(* ------------------------------------------------------------------ *)
(* Rationals: weights and moments, <<n, d>> with d > 0 in lowest terms *)
(* ------------------------------------------------------------------ *)
RECURSIVE Gcd(_, _)
Gcd(a, b) == IF b = 0 THEN a ELSE Gcd(b, a % b)

Abs(n) == IF n < 0 THEN -n ELSE n

Rat(n, d) ==
    LET g == Gcd(Abs(n), d)
    IN  <<n \div g, d \div g>>

RatAdd(a, b) == Rat(a[1] * b[2] + b[1] * a[2], a[2] * b[2])
RatSub(a, b) == Rat(a[1] * b[2] - b[1] * a[2], a[2] * b[2])
RatMul(a, b) == Rat(a[1] * b[1], a[2] * b[2])
RatLeq(a, b) == a[1] * b[2] <= b[1] * a[2]

RECURSIVE RatSum(_)
RatSum(seq) ==
    IF seq = <<>> THEN Rat(0, 1)
    ELSE RatAdd(RatSum(SubSeq(seq, 1, Len(seq) - 1)), seq[Len(seq)])

RECURSIVE IntSum(_)
IntSum(seq) ==
    IF seq = <<>> THEN 0
    ELSE IntSum(SubSeq(seq, 1, Len(seq) - 1)) + seq[Len(seq)]

(* ------------------------------------------------------------------ *)
(* Empirical                                                           *)
(* ------------------------------------------------------------------ *)
\* A value is a tensor or a hashable Python value (an int) with contents v.
\* As a dict key a tensor hashes and compares by identity, a hashable value
\* by contents: the key of the value at position i is <<i, v>> for a tensor
\* (values[i] is an object of its own) and <<0, v>> for a hashable value.
KeyOf(kind, i, v) == IF kind = "tensor" THEN <<i, v>> ELSE <<0, v>>

\* the contents of the value a key stands for
Contents(key) == key[2]

\* lines 66-69 and 76: log_weights = log(w[1]), ..., log(w[n]), or None for
\* the uniform -log(length); weights = exp(log_weights - logsumexp)
Empirical_weights(length, log_weights) ==
    IF log_weights = None
    THEN [i \in 1..length |-> Rat(1, length)]
    ELSE [i \in 1..length |-> Rat(log_weights[1][i], IntSum(log_weights[1]))]

\* line 91: distribution[key] += w on a defaultdict(float); the dict is the
\* sequence of its items in insertion order
DictAdd(d, key, w) ==
    IF \E j \in 1..Len(d) : d[j].key = key
    THEN [j \in 1..Len(d) |->
            IF d[j].key = key
            THEN [key |-> key, weight |-> RatAdd(d[j].weight, w)]
            ELSE d[j]]
    ELSE Append(d, [key |-> key, weight |-> RatAdd(Rat(0, 1), w)])

\* the scan with line 85 left out: a duplicate is found and its weight dropped
CombineStepDropsWeight(d, kind, i, v, w) ==
    IF kind # "tensor" /\ Len(d) > 0
    THEN [err |-> TRUE, d |-> d]
    ELSE IF \E j \in 1..Len(d) : Contents(d[j].key) = v
    THEN [err |-> FALSE, d |-> d]
    ELSE [err |-> FALSE,
          d |-> Append(d, [key |-> KeyOf(kind, i, v), weight |-> w])]

\* the scan with found never set: every value is inserted as a new key
CombineStepNeverFound(d, kind, i, v, w) ==
    IF kind # "tensor" /\ Len(d) > 0
    THEN [err |-> TRUE, d |-> d]
    ELSE [err |-> FALSE,
          d |-> Append(d, [key |-> KeyOf(kind, i, v), weight |-> w])]

\* lines 81-88: the scan of the keys for one torch.equal to values[i].
\* torch.equal takes tensors only: on a hashable value the first comparison
\* raises TypeError, which happens as soon as the dict is not empty
CombineStep(d, kind, i, v, w) ==
    IF kind # "tensor" /\ Len(d) > 0
    THEN [err |-> TRUE, d |-> d]
    ELSE IF \E j \in 1..Len(d) : Contents(d[j].key) = v
    THEN [err |-> FALSE,
          d |-> [j \in 1..Len(d) |->
                    IF Contents(d[j].key) = v
                    THEN [key |-> d[j].key, weight |-> RatAdd(d[j].weight, w)]
                    ELSE d[j]]]
    ELSE [err |-> FALSE,
          d |-> Append(d, [key |-> KeyOf(kind, i, v), weight |-> w])]

\* lines 77-91: the dict after the first i positions
RECURSIVE Aggregate(_, _, _, _, _)
Aggregate(values, kind, weights, combine_duplicates, i) ==
    IF i = 0 THEN [err |-> FALSE, d |-> <<>>]
    ELSE LET prev == Aggregate(values, kind, weights, combine_duplicates, i - 1)
         IN  IF prev.err THEN prev
             ELSE IF combine_duplicates
             THEN CombineStep(prev.d, kind, i, values[i], weights[i])
             ELSE [err |-> FALSE,
                   d |-> DictAdd(prev.d, KeyOf(kind, i, values[i]), weights[i])]

\* an ascending order
SortAscending(weights, indices) ==
    \A i \in 1..(Len(weights) - 1) :
        RatLeq(weights[indices[i]], weights[indices[i + 1]])

\* line 96: indices is an outcome of torch.sort(weights, descending=True);
\* the order among equal weights is the implementation's
SortDescending(weights, indices) ==
    \A i \in 1..(Len(weights) - 1) :
        RatLeq(weights[indices[i + 1]], weights[indices[i]])

\* lines 92-112: the object built from the dict, for one outcome of the sort
Empirical_object(d, indices) ==
    [length |-> Len(d),
     weights |-> [i \in 1..Len(d) |-> d[indices[i]].weight],
     values |-> [i \in 1..Len(d) |-> d[indices[i]].key],
     _mean |-> None,
     _mean_unweighted |-> None,
     _variance |-> None,
     _variance_unweighted |-> None]

\* the arguments of __init__ the model constructs
EmpInputs(maxlen) ==
    UNION {[values : [1..n -> 1..MaxVal],
            kind : {"tensor", "hashable"},
            log_weights : {None} \cup {<<lw>> : lw \in [1..n -> 1..MaxW]},
            combine_duplicates : BOOLEAN] : n \in 1..maxlen}

\* Empirical.__init__: the outcomes of a call, as
\* [pc, dist, obj]; pc = "TypeError" when the call raises
Empirical_init(in) ==
    LET length == Len(in.values)
        weights == Empirical_weights(length, in.log_weights)
        agg == Aggregate(in.values, in.kind, weights,
                         in.combine_duplicates, length)
        w == [i \in 1..Len(agg.d) |-> agg.d[i].weight]
    IN  IF agg.err
        THEN {[pc |-> "TypeError", dist |-> None, obj |-> None]}
        ELSE {[pc |-> "constructed", dist |-> <<agg.d>>,
               obj |-> <<Empirical_object(agg.d, indices)>>] :
                 indices \in {p \in Permutations(1..Len(agg.d)) :
                                SortDescending(w, p)}}

NoCount ==
    [mean |-> 0, variance |-> 0, mean_unweighted |-> 0, variance_unweighted |-> 0]

EmpInit ==
    /\ DistAbsent
    /\ TNAbsent
    /\ UniAbsent
    /\ EmpAbsent

\* Empirical(values, log_weights, combine_duplicates)
EmpiricalConstruct ==
    /\ e_pc = "new"
    /\ \E in \in EmpInputs(MaxLen) : \E out \in Empirical_init(in) :
        /\ e_in' = <<in>>
        /\ e_pc' = out.pc
        /\ e_dist' = out.dist
        /\ emp' = out.obj
    /\ e_count' = <<NoCount>>
    /\ UNCHANGED <<e_ret, tn_vars, uni_vars, dist_vars>>

EmpNext == EmpiricalConstruct

SpecEmp == EmpInit /\ [][EmpNext]_vars

\* C4: the weights a constructed Empirical stores are non-negative and sum
\* to 1, with combine_duplicates True or False
C4_WeightsNormalized ==
    e_pc = "constructed" =>
        /\ \A i \in 1..emp[1].length : emp[1].weights[i][1] >= 0
        /\ Len(emp[1].weights) = emp[1].length
        /\ RatSum(emp[1].weights) = Rat(1, 1)

\* C4 witness: duplicates were merged and the sort moved an entry
C4_Witness ==
    /\ e_pc = "constructed"
    /\ e_in[1].combine_duplicates
    /\ emp[1].length = 2
    /\ Len(e_in[1].values) = 3
    /\ emp[1].values[1] # e_dist[1][1].key

\* the normalized weight of all input positions that carry contents v
InputWeightOf(in, v) ==
    LET n == Len(in.values)
        lw == IF in.log_weights = None THEN [i \in 1..n |-> 1]
              ELSE in.log_weights[1]
    IN  Rat(IntSum([i \in 1..n |-> IF in.values[i] = v THEN lw[i] ELSE 0]),
            IntSum(lw))

\* C5: with combine_duplicates=True the Empirical holds one entry per
\* distinct input value, weighted by the sum of that value's input weights
C5_CombineMergesDuplicates ==
    (e_pc = "constructed" /\ e_in[1].combine_duplicates) =>
        LET o == emp[1]
            in == e_in[1]
        IN  /\ \A i, j \in 1..o.length :
                Contents(o.values[i]) = Contents(o.values[j]) => i = j
            /\ o.length = Cardinality({in.values[i] : i \in 1..Len(in.values)})
            /\ Len(o.values) = o.length
            /\ \A i \in 1..o.length :
                o.weights[i] = InputWeightOf(in, Contents(o.values[i]))

\* C5 witness: values [1,1,2] with weights [0.25,0.25,0.5] gave {1:0.5, 2:0.5}
C5_Witness ==
    /\ e_pc = "constructed"
    /\ e_in[1].combine_duplicates
    /\ e_in[1].values = <<1, 1, 2>>
    /\ e_in[1].log_weights = <<(<<1, 1, 2>>)>>
    /\ emp[1].length = 2
    /\ emp[1].weights = <<Rat(1, 2), Rat(1, 2)>>
    /\ {Contents(emp[1].values[i]) : i \in 1..2} = {1, 2}

\* C6: the stored weights descend, and every stored value carries the weight
\* its key had in the dict before the sort
C6_SortedDescendingPaired ==
    e_pc = "constructed" =>
        LET o == emp[1]
            d == e_dist[1]
        IN  /\ \A i \in 1..(o.length - 1) : RatLeq(o.weights[i + 1], o.weights[i])
            /\ o.length = Len(d)
            /\ \A j \in 1..Len(d) : \E i \in 1..o.length :
                o.values[i] = d[j].key /\ o.weights[i] = d[j].weight
            /\ \A i, j \in 1..o.length : o.values[i] = o.values[j] => i = j

\* C6 witness: the dict's first item was not its heaviest, so the sort moved it
C6_Witness ==
    /\ e_pc = "constructed"
    /\ emp[1].length >= 2
    /\ ~RatLeq(e_dist[1][2].weight, e_dist[1][1].weight)
    /\ emp[1].values[1] # e_dist[1][1].key

\* C10: with combine_duplicates=False the Empirical holds one entry per input
\* position, for tensors and for hashable values alike
C10_NoMergeWithoutCombine ==
    (e_pc = "constructed" /\ ~e_in[1].combine_duplicates) =>
        emp[1].length = Len(e_in[1].values)

\* what holds of combine_duplicates=False: no merging of tensor values
Emp_NoMergeOfTensors ==
    (e_pc = "constructed" /\ ~e_in[1].combine_duplicates
        /\ e_in[1].kind = "tensor") =>
        emp[1].length = Len(e_in[1].values)

(* ------------------------------------------------------------------ *)
(* Empirical: expectation and the cached statistics                    *)
(* ------------------------------------------------------------------ *)
\* the number a stored value is in arithmetic
Num(key) == Rat(Contents(key), 1)

\* Empirical.expectation, lines 126-130; func is a function of the stored value
Empirical_expectation(o, func) ==
    RatSum([i \in 1..o.length |-> RatMul(func[o.values[i]], o.weights[i])])

\* the values an Empirical stores, as the domain of a func
StoredValues(o) == {o.values[i] : i \in 1..o.length}

\* The properties take and give [obj, cnt]: the object and, beside it, the
\* number of times each statistic has been computed.

\* the mean property without its cache test
Empirical_mean_uncached(st) ==
    [obj |-> [st.obj EXCEPT
                !._mean = <<Empirical_expectation(st.obj,
                                [x \in StoredValues(st.obj) |-> Num(x)])>>],
     cnt |-> [st.cnt EXCEPT !.mean = @ + 1]]

\* Empirical.mean, lines 133-136
Empirical_mean(st) ==
    IF st.obj._mean = None
    THEN [obj |-> [st.obj EXCEPT
                    !._mean = <<Empirical_expectation(st.obj,
                                    [x \in StoredValues(st.obj) |-> Num(x)])>>],
          cnt |-> [st.cnt EXCEPT !.mean = @ + 1]]
    ELSE st

\* Empirical.variance, lines 139-143
Empirical_variance(st) ==
    IF st.obj._variance = None
    THEN LET s1 == Empirical_mean(st)
             mean == s1.obj._mean[1]
             v == Empirical_expectation(s1.obj,
                    [x \in StoredValues(s1.obj) |->
                        RatMul(RatSub(Num(x), mean), RatSub(Num(x), mean))])
         IN  [obj |-> [s1.obj EXCEPT !._variance = <<v>>],
              cnt |-> [s1.cnt EXCEPT !.variance = @ + 1]]
    ELSE st

\* Empirical.mean_unweighted, lines 146-152
Empirical_mean_unweighted(st) ==
    IF st.obj._mean_unweighted = None
    THEN LET total == RatSum([i \in 1..st.obj.length |-> Num(st.obj.values[i])])
         IN  [obj |-> [st.obj EXCEPT
                        !._mean_unweighted =
                            <<RatMul(total, Rat(1, st.obj.length))>>],
              cnt |-> [st.cnt EXCEPT !.mean_unweighted = @ + 1]]
    ELSE st

\* Empirical.variance_unweighted, lines 155-162
Empirical_variance_unweighted(st) ==
    IF st.obj._variance_unweighted = None
    THEN LET s1 == Empirical_mean_unweighted(st)
             mean_unweighted == s1.obj._mean_unweighted[1]
             total == RatSum([i \in 1..s1.obj.length |->
                        RatMul(RatSub(Num(s1.obj.values[i]), mean_unweighted),
                               RatSub(Num(s1.obj.values[i]), mean_unweighted))])
         IN  [obj |-> [s1.obj EXCEPT
                        !._variance_unweighted =
                            <<RatMul(total, Rat(1, s1.obj.length))>>],
              cnt |-> [s1.cnt EXCEPT !.variance_unweighted = @ + 1]]
    ELSE st

\* the state after construction, for every constructed Empirical of up to
\* MaxStatLen input values
StatInit ==
    /\ DistAbsent
    /\ TNAbsent
    /\ UniAbsent
    /\ \E in \in EmpInputs(MaxStatLen) : \E out \in Empirical_init(in) :
        /\ out.pc = "constructed"
        /\ e_pc = out.pc
        /\ e_in = <<in>>
        /\ e_dist = out.dist
        /\ emp = out.obj
    /\ e_count = <<NoCount>>
    /\ e_ret = None

\* the statistics computed between two counts
Computed(before, after) == {k \in DOMAIN after : after[k] > before[k]}

\* one access to a property: the object and the counts after it, and what
\* the access returned
Access(name, after, value) ==
    /\ e_pc = "constructed"
    /\ emp' = <<after.obj>>
    /\ e_count' = <<after.cnt>>
    /\ e_ret' = <<name, value, Computed(e_count[1], after.cnt)>>
    /\ UNCHANGED <<e_pc, e_in, e_dist, tn_vars, uni_vars, dist_vars>>

Now == [obj |-> emp[1], cnt |-> e_count[1]]

GetMean ==
    \E after \in {Empirical_mean(Now)} :
        Access("mean", after, after.obj._mean[1])

GetVariance ==
    \E after \in {Empirical_variance(Now)} :
        Access("variance", after, after.obj._variance[1])

GetMeanUnweighted ==
    \E after \in {Empirical_mean_unweighted(Now)} :
        Access("mean_unweighted", after, after.obj._mean_unweighted[1])

GetVarianceUnweighted ==
    \E after \in {Empirical_variance_unweighted(Now)} :
        Access("variance_unweighted", after, after.obj._variance_unweighted[1])

StatNext == GetMean \/ GetVariance \/ GetMeanUnweighted \/ GetVarianceUnweighted

SpecEmpStats == StatInit /\ [][StatNext]_vars

\* the four statistics computed directly from the stored values and weights
DirectStat(o, name) ==
    LET n == o.length
        x == [i \in 1..n |-> Rat(o.values[i][2], 1)]
        m == RatSum([i \in 1..n |-> RatMul(o.weights[i], x[i])])
        mu == RatMul(Rat(1, n), RatSum(x))
        sq(a) == RatMul(a, a)
    IN  CASE name = "mean" -> m
          [] name = "variance" ->
                RatSum([i \in 1..n |-> RatMul(o.weights[i], sq(RatSub(x[i], m)))])
          [] name = "mean_unweighted" -> mu
          [] name = "variance_unweighted" ->
                RatSum([i \in 1..n |-> RatMul(Rat(1, n), sq(RatSub(x[i], mu)))])

\* C9: every access returns the directly computed statistic, each statistic
\* is computed at most once (exactly when its cache is filled), variance
\* fills the mean's cache on demand, and the weighted and unweighted caches
\* hold their own values
C9_CachedStatistics ==
    LET o == emp[1]
        c == e_count[1]
    IN  /\ e_ret # None => e_ret[2] = DirectStat(o, e_ret[1])
        /\ o._mean # None => o._mean[1] = DirectStat(o, "mean")
        /\ o._variance # None => o._variance[1] = DirectStat(o, "variance")
        /\ o._mean_unweighted # None =>
                o._mean_unweighted[1] = DirectStat(o, "mean_unweighted")
        /\ o._variance_unweighted # None =>
                o._variance_unweighted[1] = DirectStat(o, "variance_unweighted")
        /\ c.mean = (IF o._mean = None THEN 0 ELSE 1)
        /\ c.variance = (IF o._variance = None THEN 0 ELSE 1)
        /\ c.mean_unweighted = (IF o._mean_unweighted = None THEN 0 ELSE 1)
        /\ c.variance_unweighted = (IF o._variance_unweighted = None THEN 0 ELSE 1)
        /\ o._variance # None => o._mean # None
        /\ o._variance_unweighted # None => o._mean_unweighted # None
        /\ e_ret # None => e_ret[3] \subseteq
                (CASE e_ret[1] = "variance" -> {"mean", "variance"}
                   [] e_ret[1] = "variance_unweighted" ->
                        {"mean_unweighted", "variance_unweighted"}
                   [] OTHER -> {e_ret[1]})

\* C9 witness: with nothing cached, variance was accessed on an Empirical
\* whose weighted and unweighted statistics differ, and that access computed
\* the mean as well as the variance
C9_Witness ==
    /\ e_pc = "constructed"
    /\ e_ret # None
    /\ e_ret[1] = "variance"
    /\ e_ret[3] = {"mean", "variance"}
    /\ e_ret[2][1] > 0
    /\ emp[1]._mean_unweighted = None
    /\ emp[1]._mean # <<DirectStat(emp[1], "mean_unweighted")>>

\* an access served from the cache: nothing was computed during it
C9_ServedFromCache ==
    /\ e_ret # None
    /\ e_ret[1] = "mean"
    /\ e_ret[3] = {}

(* ------------------------------------------------------------------ *)
(* Distribution: which code an operation runs, by class                *)
(* ------------------------------------------------------------------ *)
\* An object here is [cls, torch_dist, cached]: its class, whether __init__
\* was given a delegate torch_dist, and the memo fields that are not None.
\* A call ends in "value" (the code that ran returned), or in the exception.

Classes ==
    {"Distribution", "Empirical", "Categorical", "Normal", "TruncatedNormal",
     "Uniform"}

\* the operations class Distribution defines, lines 18-60
BaseOps ==
    {"sample", "log_prob", "prob", "expectation", "mean", "variance", "stddev"}

\* the operations each subclass defines itself
Overrides(cls) ==
    CASE cls = "Empirical" ->
            {"sample", "expectation", "mean", "variance", "mean_unweighted",
             "variance_unweighted", "stddev_unweighted"}
      [] cls = "Categorical" -> {"log_prob"}
      [] cls = "Normal" -> {"cdf", "icdf"}
      [] cls = "TruncatedNormal" -> {"log_prob", "mean", "variance", "sample"}
      [] cls = "Uniform" -> {"sample", "log_prob", "mean", "variance"}
      [] OTHER -> {}

AllOps == BaseOps \cup UNION {Overrides(c) : c \in Classes}

\* the objects after construction: the torch_dist each __init__ passes to
\* super().__init__ (lines 112, 173, 191, 222, 285) and the memo fields it sets
NewObjects ==
    {[cls |-> "Distribution", torch_dist |-> t, cached |-> {}] : t \in BOOLEAN}
    \cup {[cls |-> "Empirical", torch_dist |-> FALSE, cached |-> {}],
          [cls |-> "Categorical", torch_dist |-> TRUE, cached |-> {}],
          [cls |-> "Normal", torch_dist |-> TRUE, cached |-> {}],
          [cls |-> "TruncatedNormal", torch_dist |-> FALSE, cached |-> {}],
          [cls |-> "Uniform", torch_dist |-> FALSE,
           cached |-> {"_mean", "_variance"}]}

Returns(o) == [out |-> "value", obj |-> o]
Raises(exc, o) == [out |-> exc, obj |-> o]

\* the memo fields a subclass's own operation fills before it returns
Fills(cls, op) ==
    CASE cls = "Empirical" /\ op = "mean" -> {"_mean"}
      [] cls = "Empirical" /\ op = "variance" -> {"_mean", "_variance"}
      [] cls = "Empirical" /\ op = "mean_unweighted" -> {"_mean_unweighted"}
      [] cls = "Empirical" /\ op \in {"variance_unweighted", "stddev_unweighted"}
            -> {"_mean_unweighted", "_variance_unweighted"}
      [] cls = "TruncatedNormal" /\ op = "mean" -> {"_mean"}
      [] cls = "TruncatedNormal" /\ op = "variance" -> {"_variance"}
      [] OTHER -> {}

\* a subclass's own operation
Own(o, op) == Returns([o EXCEPT !.cached = @ \cup Fills(o.cls, op)])

\* Distribution.sample, log_prob, mean, variance: the delegate's, or raise
Distribution_delegated(o) ==
    IF o.torch_dist THEN Returns(o) ELSE Raises("NotImplementedError", o)

\* expectation written like its siblings: the delegate's, or raise
Distribution_expectation_delegated(o) ==
    IF o.torch_dist THEN Returns(o) ELSE Raises("NotImplementedError", o)

\* Distribution.expectation, lines 35-36
Distribution_expectation(o) == Raises("NotImplementedError", o)

\* a call of one of sample, log_prob, expectation, mean, variance
Direct(o, op) ==
    IF op \in Overrides(o.cls) THEN Own(o, op)
    ELSE IF op = "expectation" THEN Distribution_expectation(o)
    ELSE Distribution_delegated(o)

\* Distribution.prob, lines 31-33: exp of self.log_prob(value)
Distribution_prob(o) == Direct(o, "log_prob")

\* Distribution.stddev, lines 53-60: the delegate's, else self.variance.sqrt()
Distribution_stddev(o) ==
    IF o.torch_dist THEN Returns(o) ELSE Direct(o, "variance")

\* o.op: Python's attribute lookup, then the call
Invoke(o, op) ==
    IF op \in Overrides(o.cls) THEN Own(o, op)
    ELSE IF op = "prob" THEN Distribution_prob(o)
    ELSE IF op = "stddev" THEN Distribution_stddev(o)
    ELSE IF op \in BaseOps THEN Direct(o, op)
    ELSE Raises("AttributeError", o)

DistInit ==
    /\ TNAbsent
    /\ UniAbsent
    /\ EmpAbsent
    /\ d_obj \in {<<o>> : o \in NewObjects}
    /\ d_before = d_obj
    /\ d_op = None
    /\ d_out = None

DistCall ==
    /\ \E op \in AllOps :
        LET r == Invoke(d_obj[1], op)
        IN  /\ d_op' = <<op>>
            /\ d_out' = <<r.out>>
            /\ d_obj' = <<r.obj>>
    /\ d_before' = d_obj
    /\ UNCHANGED <<tn_vars, uni_vars, emp_vars>>

DistNext == DistCall

SpecDist == DistInit /\ [][DistNext]_vars

\* C8: expectation on a non-Empirical distribution raises NotImplementedError
\* and leaves the object as it was; sample, log_prob, mean and variance raise
\* NotImplementedError on a distribution with no delegate that does not
\* override them
C8_NotImplemented ==
    d_op # None =>
        LET o == d_before[1]
            op == d_op[1]
        IN  /\ (op = "expectation" /\ o.cls # "Empirical") =>
                (d_out = <<"NotImplementedError">> /\ d_obj = d_before)
            /\ (op \in {"sample", "log_prob", "mean", "variance"}
                    /\ ~o.torch_dist
                    /\ op \notin Overrides(o.cls)) =>
                (d_out = <<"NotImplementedError">> /\ d_obj = d_before)

\* C8 witness: expectation raised on a TruncatedNormal whose caches were
\* filled, and on nothing else changed
C8_Witness ==
    /\ d_op = <<"expectation">>
    /\ d_obj # None
    /\ d_obj[1].cls = "TruncatedNormal"
    /\ d_obj[1].cached = {"_mean", "_variance"}
    /\ d_out = <<"NotImplementedError">>

====
